---- MODULE Spec2Model ----
(***************************************************************************)
(* Model of the sales ledger of ecommerce_platform: the three SQLite        *)
(* tables of business_data.db (sales, inventory, customers), the writers    *)
(* of business_app.py (add_sale, add_inventory, add_customer, the           *)
(* "Simulate Daily Sales" button), the sample-data generator of app.py and  *)
(* the KPI computation of app.py.                                           *)
(*                                                                          *)
(* Row ids are AUTOINCREMENT keys and no row is ever deleted, so a table is *)
(* a sequence and a row's id is its index.  Free-text and timestamp columns *)
(* (customers.name, sales.sale_date, inventory.last_updated) take no part   *)
(* in any condition of the code and are left out of the rows.  REAL columns *)
(* are modelled by integers and a quotient by a numerator/denominator pair. *)
(***************************************************************************)
EXTENDS Integers, Sequences, FiniteSets, TLC

\* ---- bounds of the model ----
MaxRows == 5          \* rows in the three tables together

\* app.py:118, business_app.py:269: the first two of the four products of the list
products == <<"Phone", "Tablet">>

NumProducts == Len(products)

Products == {products[i] : i \in 1..NumProducts}

\* ---- inputs ----

\* quantities reach add_sale from the form (>= 1) and from imported CSV rows (any integer)
Quantities == {0 - 1, 0, 1}
\* stock levels reach add_inventory from the form (>= 0) and from imported CSV rows
StockLevels == {0 - 1, 0, 1}
\* <<selling price, buying price>> per unit
UnitPrices == {<<2, 1>>}
\* <<email, orders, is_active>> of the form (orders = 0) and of imported CSV rows
CustomerInputs == {<<"a@x", 0, 1>>, <<"b@x", 1, 0>>}
\* customer ids entered: those of the rows two emails allow, and one that no row has
CustomerIds == 1..3
\* the statement of add_sale at which the storage layer raises sqlite3.Error
Faults == {"none", "inventory_update", "customer_update", "commit"}

\* conns: the add_sale calls in progress on their own connections;
\* inventory0: the inventory table as it was before those calls
VARIABLES schema, sales, inventory, customers, last, conns, inventory0

vars == <<schema, sales, inventory, customers, last, conns, inventory0>>

\* ---- schema ----

\* which module's init_db ran first on business_data.db (CREATE TABLE IF NOT EXISTS)
Schemas == {"business", "app"}

\* inventory.stock carries CHECK(stock >= 0)
StockCheck_Missing(sch) == FALSE

StockCheck(sch) == sch = "business"

\* customers.email carries UNIQUE
EmailUnique(sch) == sch = "business"

\* ---- helpers over tables ----

Min(S) == CHOOSE x \in S : \A y \in S : x <= y

\* SELECT id FROM customers WHERE id = ?
CustomerExists(custs, cid) == cid \in 1..Len(custs)

\* rows matched by WHERE product = ?
ProductRows(inv, p) == {i \in 1..Len(inv) : inv[i].product = p}

\* SELECT stock FROM inventory WHERE product = ? ; fetchone(): the first row in rowid order
SelectStock(inv, p) == inv[Min(ProductRows(inv, p))].stock

\* UPDATE inventory SET stock = stock - ? WHERE product = ? : every matching row
UpdateStock(inv, p, q) ==
  [i \in 1..Len(inv) |-> IF inv[i].product = p
                            THEN [inv[i] EXCEPT !.stock = @ - q]
                            ELSE inv[i]]

\* UPDATE customers SET orders = orders + 1 WHERE id = ?
IncrementOrders(custs, cid) == [custs EXCEPT ![cid].orders = @ + 1]

\* the CHECK constraint as the UPDATE statement evaluates it
CheckHolds(sch, inv) == StockCheck(sch) => \A i \in 1..Len(inv) : inv[i].stock >= 0

\* INSERT OR REPLACE INTO inventory (product, stock, last_updated): the only key is the
\* generated id, so no row ever conflicts and the statement always inserts
InsertOrReplace(inv, p, s) == Append(inv, [product |-> p, stock |-> s])

Tables(s, i, c) == [sales |-> s, inventory |-> i, customers |-> c]

\* except sqlite3.Error: conn.close() without commit discards the open transaction
Rollback_AutoCommit(before, tx) == tx

Rollback(before, tx) == before

Outcome(ok, err, db) == [ok |-> ok, err |-> err, db |-> db]

\* ---- business_app.add_sale ----

SaleRow(p, q, sp, bp, cid) ==
  [product |-> p, quantity |-> q,
   total_selling_price |-> q * sp,
   total_buying_price |-> q * bp,
   revenue |-> (q * sp) - (q * bp),
   customer_id |-> cid]

\* the three validations, product looked up before the customer
Precondition_ProductFirst(db, p, q, cid) ==
  IF ProductRows(db.inventory, p) = {} THEN "UnknownProduct"
  ELSE IF ~CustomerExists(db.customers, cid) THEN "UnknownCustomer"
  ELSE IF SelectStock(db.inventory, p) < q THEN "InsufficientStock"
  ELSE "none"

\* the three validations in the order of the code; "none" when all pass
Precondition(db, p, q, cid) ==
  IF ~CustomerExists(db.customers, cid) THEN "UnknownCustomer"
  ELSE IF ProductRows(db.inventory, p) = {} THEN "UnknownProduct"
  ELSE IF SelectStock(db.inventory, p) < q THEN "InsufficientStock"
  ELSE "none"

add_sale(sch, db, p, q, sp, bp, cid, fault) ==
  IF Precondition(db, p, q, cid) # "none"
    THEN Outcome(FALSE, Precondition(db, p, q, cid), db)
  ELSE
    LET s1 == Append(db.sales, SaleRow(p, q, sp, bp, cid))
        i2 == UpdateStock(db.inventory, p, q)
        c3 == IncrementOrders(db.customers, cid)
    IN IF fault = "inventory_update" \/ ~CheckHolds(sch, i2)
         THEN Outcome(FALSE, "DatabaseError",
                      Rollback(db, Tables(s1, db.inventory, db.customers)))
       ELSE IF fault = "customer_update"
         THEN Outcome(FALSE, "DatabaseError", Rollback(db, Tables(s1, i2, db.customers)))
       ELSE IF fault = "commit"
         THEN Outcome(FALSE, "DatabaseError", Rollback(db, Tables(s1, i2, c3)))
       ELSE Outcome(TRUE, "none", Tables(s1, i2, c3))

\* the statements a call reaches, at which the storage layer can raise
FaultPoints(db, p, q, cid) == IF Precondition(db, p, q, cid) = "none" THEN Faults ELSE {"none"}

\* ---- business_app.add_inventory ----

add_inventory(db, p, s) ==
  IF s < 0 THEN Outcome(FALSE, "NegativeStock", db)
  ELSE Outcome(TRUE, "none", [db EXCEPT !.inventory = InsertOrReplace(@, p, s)])

\* ---- business_app.add_customer ----

\* SELECT email FROM customers WHERE email = ? finds nothing
EmailPresent_Unchecked(custs, e) == FALSE

\* SELECT email FROM customers WHERE email = ?
EmailPresent(custs, e) == \E i \in 1..Len(custs) : custs[i].email = e

\* id is c.lastrowid on success and 0 for None
add_customer(sch, db, e, orders, active) ==
  IF EmailPresent(db.customers, e)
    THEN [ok |-> FALSE, err |-> "DuplicateEmail", db |-> db, id |-> 0]
  ELSE IF EmailUnique(sch) /\ \E i \in 1..Len(db.customers) : db.customers[i].email = e
    THEN [ok |-> FALSE, err |-> "DatabaseError", db |-> db, id |-> 0]
  ELSE [ok |-> TRUE, err |-> "none",
        db |-> [db EXCEPT !.customers =
                  Append(@, [email |-> e, orders |-> orders, is_active |-> active])],
        id |-> Len(db.customers) + 1]

\* ---- app.generate_sample_data ----

\* random.randint(1, 20), scaled to the quantities of the model
GenQuantities == {1}
\* random.randint(10, 100), scaled to the stock levels of the model
GenStockLevels == {1}
\* random.uniform(5000, 50000) and 60-80% of it, scaled
GenUnitPrices == {<<2, 1>>}
\* random.randint(1, 10), scaled: ids of rows that exist and one that does not
GenCustomerIds == CustomerIds

\* one iteration of the loop: two direct writes and a commit
GenerateOne(db, p, q, pr, cid, s) ==
  Tables(Append(db.sales, SaleRow(p, q, pr[1], pr[2], cid)),
         InsertOrReplace(db.inventory, p, s),
         db.customers)

RECURSIVE GenerateFrom(_, _)
\* the stores the loop can leave, from product number i on
GenerateFrom(db, i) ==
  IF i > NumProducts THEN {db}
  ELSE UNION {GenerateFrom(GenerateOne(db, products[i], q, pr, cid, s), i + 1) :
                <<q, pr, cid, s>> \in
                  GenQuantities \X GenUnitPrices \X GenCustomerIds \X GenStockLevels}

generate_sample_data(db) == GenerateFrom(db, 1)

\* ---- business_app.main, "Simulate Daily Sales" ----

\* random.randint(1, min(stock, 10))
SimMaxQuantity == 10

MinOf(a, b) == IF a <= b THEN a ELSE b

SimulateOne(sch, db, p) ==
  IF ProductRows(db.inventory, p) # {} /\ SelectStock(db.inventory, p) > 0
    THEN {add_sale(sch, db, p, q, pr[1], pr[2], cid, "none").db :
            <<q, pr, cid>> \in
              (1..MinOf(SelectStock(db.inventory, p), SimMaxQuantity))
                \X GenUnitPrices \X GenCustomerIds}
    ELSE {db}

RECURSIVE SimulateFrom(_, _, _)
SimulateFrom(sch, db, i) ==
  IF i > NumProducts THEN {db}
  ELSE UNION {SimulateFrom(sch, d, i + 1) : d \in SimulateOne(sch, db, products[i])}

simulate_sales(sch, db) == SimulateFrom(sch, db, 1)

\* ---- app.compute_metrics ----

Ratio(n, d) == [num |-> n, den |-> d]

Zero == Ratio(0, 1)

RECURSIVE SumOver(_, _, _)
\* df[column].sum() over the first n rows
SumOver(df, column, n) == IF n = 0 THEN 0 ELSE SumOver(df, column, n - 1) + df[n][column]

ColumnSum(df, column) == SumOver(df, column, Len(df))

compute_metrics(sales_df, customer_df) ==
  LET total_customers == Len(customer_df)
      active_customers ==
        Cardinality({i \in 1..Len(customer_df) : customer_df[i].is_active = 1})
      churn_rate == IF total_customers > 0
                      THEN Ratio((total_customers - active_customers) * 100, total_customers)
                      ELSE Zero
  IN [total_revenue |-> ColumnSum(sales_df, "revenue"),
      avg_order_value |-> IF Len(sales_df) # 0
                            THEN Ratio(ColumnSum(sales_df, "total_selling_price"), Len(sales_df))
                            ELSE Zero,
      total_quantity |-> ColumnSum(sales_df, "quantity"),
      churn_rate |-> churn_rate,
      total_customers |-> total_customers,
      profit_margin |-> IF ColumnSum(sales_df, "total_selling_price") > 0
                          THEN Ratio(ColumnSum(sales_df, "revenue") * 100,
                                     ColumnSum(sales_df, "total_selling_price"))
                          ELSE Zero]

\* ---- state machine ----

DB == Tables(sales, inventory, customers)

Last(op, err) == [op |-> op, err |-> err]

Commit(db) ==
  /\ sales' = db.sales
  /\ inventory' = db.inventory
  /\ customers' = db.customers

\* the two sessions that call add_sale at the same time, each on its own connection
Conns == {1, 2}

\* a connection with no call in progress
Idle ==
  [pc |-> "idle", product |-> "", quantity |-> 0, selling_price |-> 0, buying_price |-> 0,
   customer_id |-> 0, current_stock |-> 0, tx |-> Tables(<<>>, <<>>, <<>>)]

WithinBounds(db) == Len(db.sales) + Len(db.inventory) + Len(db.customers) <= MaxRows

Init ==
  /\ schema \in Schemas
  /\ sales = <<>>
  /\ inventory = <<>>
  /\ customers = <<>>
  /\ last = Last("init_db", "none")
  /\ conns = [c \in Conns |-> Idle]
  /\ inventory0 = <<>>

\* the "Add Sale" button and each row of an imported sales CSV
CallAddSale ==
  \E p \in Products, q \in Quantities, pr \in UnitPrices, cid \in CustomerIds :
   \E f \in FaultPoints(DB, p, q, cid) :
    LET r == add_sale(schema, DB, p, q, pr[1], pr[2], cid, f)
    IN /\ WithinBounds(r.db)
       /\ Commit(r.db)
       /\ last' = Last("add_sale", r.err)
       /\ UNCHANGED <<schema, conns, inventory0>>

\* the "Update Inventory" button and each row of an imported inventory CSV
CallAddInventory ==
  \E p \in Products, s \in StockLevels :
    LET r == add_inventory(DB, p, s)
    IN /\ WithinBounds(r.db)
       /\ Commit(r.db)
       /\ last' = Last("add_inventory", r.err)
       /\ UNCHANGED <<schema, conns, inventory0>>

\* the "Add Customer" button and each row of an imported customers CSV
CallAddCustomer ==
  \E c \in CustomerInputs :
    LET r == add_customer(schema, DB, c[1], c[2], c[3])
    IN /\ WithinBounds(r.db)
       /\ Commit(r.db)
       /\ last' = Last("add_customer", r.err)
       /\ UNCHANGED <<schema, conns, inventory0>>

\* the scheduled job and the first load of the dashboard
CallGenerateSampleData ==
  \E d \in generate_sample_data(DB) :
    /\ WithinBounds(d)
    /\ Commit(d)
    /\ last' = Last("generate_sample_data", "none")
    /\ UNCHANGED <<schema, conns, inventory0>>

\* the "Simulate Daily Sales" button
CallSimulateSales ==
  \E d \in simulate_sales(schema, DB) :
    /\ WithinBounds(d)
    /\ Commit(d)
    /\ last' = Last("simulate_sales", "none")
    /\ UNCHANGED <<schema, conns, inventory0>>

Next ==
  \/ CallAddSale
  \/ CallAddInventory
  \/ CallAddCustomer
  \/ CallGenerateSampleData
  \/ CallSimulateSales

Spec == Init /\ [][Next]_vars

\* ---- two add_sale calls on separate connections, statement by statement ----

\* stock levels of the inventory rows the two calls start from
ConcStockLevels == {0, 1, 2}

\* the inventory tables the two calls start from: one row per product, as one
\* add_inventory call per product leaves them
ConcInventories ==
  {inv \in UNION {[1..n -> [product : Products, stock : ConcStockLevels]] : n \in 1..2} :
     \A i, j \in 1..Len(inv) : inv[i].product = inv[j].product => i = j}

\* the connection whose INSERT opened the write transaction (SQLite's RESERVED lock)
WriteLocked(c) == conns[c].pc \in {"update_inventory", "update_customers", "commit"}

\* return of a call: the connection is closed, the outcome reported
Return(c, err) ==
  /\ conns' = [conns EXCEPT ![c] = [Idle EXCEPT !.pc = "done"]]
  /\ last' = Last("add_sale", err)

InitConc ==
  /\ schema \in Schemas
  /\ sales = <<>>
  /\ inventory \in ConcInventories
  /\ customers = <<[email |-> "a@x", orders |-> 0, is_active |-> 1]>>
  /\ last = Last("init_db", "none")
  /\ conns = [c \in Conns |-> Idle]
  /\ inventory0 = inventory

\* add_sale is called: sqlite3.connect
ConnStart(c) ==
  /\ conns[c].pc = "idle"
  /\ \E p \in Products, q \in Quantities, pr \in UnitPrices, cid \in 1..2 :
       conns' = [conns EXCEPT ![c] =
                   [Idle EXCEPT !.pc = "select_customer", !.product = p, !.quantity = q,
                                !.selling_price = pr[1], !.buying_price = pr[2],
                                !.customer_id = cid]]
  /\ UNCHANGED <<schema, sales, inventory, customers, last, inventory0>>

\* SELECT id FROM customers WHERE id = ? on the committed table
ConnSelectCustomer(c) ==
  /\ conns[c].pc = "select_customer"
  /\ IF CustomerExists(customers, conns[c].customer_id)
       THEN /\ conns' = [conns EXCEPT ![c].pc = "select_stock"]
            /\ UNCHANGED last
       ELSE Return(c, "UnknownCustomer")
  /\ UNCHANGED <<schema, sales, inventory, customers, inventory0>>

\* SELECT stock FROM inventory WHERE product = ? on the committed table, and the
\* comparison of the value read with the quantity
ConnSelectStock(c) ==
  /\ conns[c].pc = "select_stock"
  /\ IF ProductRows(inventory, conns[c].product) = {}
       THEN Return(c, "UnknownProduct")
       ELSE IF SelectStock(inventory, conns[c].product) < conns[c].quantity
         THEN Return(c, "InsufficientStock")
         ELSE /\ conns' = [conns EXCEPT ![c].pc = "insert",
                                        ![c].current_stock =
                                           SelectStock(inventory, conns[c].product)]
              /\ UNCHANGED last
  /\ UNCHANGED <<schema, sales, inventory, customers, inventory0>>

\* INSERT INTO sales: opens the write transaction once no other connection holds it
ConnInsert(c) ==
  /\ conns[c].pc = "insert"
  /\ \A d \in Conns \ {c} : ~WriteLocked(d)
  /\ conns' = [conns EXCEPT
                ![c].pc = "update_inventory",
                ![c].tx = Tables(Append(sales, SaleRow(conns[c].product, conns[c].quantity,
                                                      conns[c].selling_price,
                                                      conns[c].buying_price,
                                                      conns[c].customer_id)),
                                 inventory, customers)]
  /\ UNCHANGED <<schema, sales, inventory, customers, last, inventory0>>

\* INSERT INTO sales while the other connection still holds the write transaction when
\* the busy timeout ends: sqlite3.OperationalError, caught by the except clause
ConnLocked(c) ==
  /\ conns[c].pc = "insert"
  /\ \E d \in Conns \ {c} : WriteLocked(d)
  /\ Return(c, "DatabaseError")
  /\ UNCHANGED <<schema, sales, inventory, customers, inventory0>>

\* UPDATE inventory SET stock = stock - ? WHERE product = ? inside the transaction; a
\* CHECK failure raises, and the except clause closes the connection without commit
ConnUpdateInventory(c) ==
  /\ conns[c].pc = "update_inventory"
  /\ LET i2 == UpdateStock(conns[c].tx.inventory, conns[c].product, conns[c].quantity)
     IN IF CheckHolds(schema, i2)
          THEN /\ conns' = [conns EXCEPT ![c].pc = "update_customers",
                                         ![c].tx.inventory = i2]
               /\ UNCHANGED <<sales, inventory, customers, last>>
          ELSE /\ Commit(Rollback(DB, conns[c].tx))
               /\ Return(c, "DatabaseError")
  /\ UNCHANGED <<schema, inventory0>>

\* UPDATE customers SET orders = orders + 1 WHERE id = ? inside the transaction
ConnUpdateCustomers(c) ==
  /\ conns[c].pc = "update_customers"
  /\ conns' = [conns EXCEPT ![c].pc = "commit",
                            ![c].tx.customers =
                               IncrementOrders(conns[c].tx.customers, conns[c].customer_id)]
  /\ UNCHANGED <<schema, sales, inventory, customers, last, inventory0>>

\* conn.commit(); conn.close(); return True
ConnCommit(c) ==
  /\ conns[c].pc = "commit"
  /\ Commit(conns[c].tx)
  /\ Return(c, "none")
  /\ UNCHANGED <<schema, inventory0>>

NextConc ==
  \E c \in Conns :
    \/ ConnStart(c)
    \/ ConnSelectCustomer(c)
    \/ ConnSelectStock(c)
    \/ ConnInsert(c)
    \/ ConnLocked(c)
    \/ ConnUpdateInventory(c)
    \/ ConnUpdateCustomers(c)
    \/ ConnCommit(c)

SpecConc == InitConc /\ [][NextConc]_vars

\* ---- properties ----

SaleInputs == Products \X Quantities \X UnitPrices \X CustomerIds

\* what add_sale returns for an input tuple in the current state
SaleOutcome(in, f) == add_sale(schema, DB, in[1], in[2], in[3][1], in[3][2], in[4], f)

RECURSIVE SumStock(_, _, _)
\* the stock held for product p in the first n rows of inv
SumStock(inv, p, n) ==
  IF n = 0 THEN 0
  ELSE SumStock(inv, p, n - 1) + (IF inv[n].product = p THEN inv[n].stock ELSE 0)

TotalStock(inv, p) == SumStock(inv, p, Len(inv))

\* the number of sale rows carrying customer id c
SalesOf(s, c) == Cardinality({k \in 1..Len(s) : s[k].customer_id = c})

SameRatio(a, b) == a.num * b.den = b.num * a.den

\* C1: with the tables created by business_app.init_db, every inventory row has
\* stock >= 0 after any sequence of add_sale, add_inventory, sample-data generation and
\* simulated sales; and an add_sale whose quantity exceeds the stock read for the product
\* returns failure and leaves the three tables as they were.
C1_StockNeverNegative ==
  /\ schema = "business" => \A i \in 1..Len(inventory) : inventory[i].stock >= 0
  /\ \A in \in SaleInputs :
       (ProductRows(inventory, in[1]) # {} /\ in[2] > SelectStock(inventory, in[1]))
         => (~SaleOutcome(in, "none").ok /\ SaleOutcome(in, "none").db = DB)

C1_Witness ==
  /\ schema = "business"
  /\ last = Last("add_sale", "InsufficientStock")
  /\ Len(sales) >= 1
  /\ \E i \in 1..Len(inventory) : inventory[i].stock = 0

\* C2: an add_sale step that does not return success, a storage fault after the Sale
\* insert included, leaves sales, inventory and customers exactly as they were; a step
\* that adds the sale row also applies the stock decrement and the order-count increment.
C2_Atomic ==
  [][last'.op = "add_sale" =>
       \/ /\ last'.err # "none"
          /\ UNCHANGED <<sales, inventory, customers>>
       \/ /\ last'.err = "none"
          /\ Len(sales') = Len(sales) + 1
          /\ SubSeq(sales', 1, Len(sales)) = sales
          /\ LET s == sales'[Len(sales')]
             IN /\ Len(inventory') = Len(inventory)
                /\ \A i \in 1..Len(inventory) :
                     /\ inventory'[i].product = inventory[i].product
                     /\ inventory'[i].stock =
                          IF inventory[i].product = s.product
                            THEN inventory[i].stock - s.quantity
                            ELSE inventory[i].stock
                /\ s.customer_id \in 1..Len(customers)
                /\ customers' =
                     [customers EXCEPT ![s.customer_id].orders = @ + 1]]_vars

\* without the CHECK constraint only an injected storage fault yields a database error
C2_Witness ==
  /\ schema = "app"
  /\ last = Last("add_sale", "DatabaseError")
  /\ Len(sales) >= 1

\* C3: when add_sale is rejected by a precondition (unknown customer, then unknown
\* product, then stock below the quantity), it returns failure, reports the first failing
\* precondition in that order, and leaves the three tables unchanged.
C3_RejectedUnchanged ==
  \A in \in SaleInputs :
    LET expected ==
          IF in[4] \notin 1..Len(customers) THEN "UnknownCustomer"
          ELSE IF \A i \in 1..Len(inventory) : inventory[i].product # in[1]
            THEN "UnknownProduct"
          ELSE IF SelectStock(inventory, in[1]) < in[2] THEN "InsufficientStock"
          ELSE "none"
        r == SaleOutcome(in, "none")
    IN expected # "none" => (~r.ok /\ r.err = expected /\ r.db = DB)

C3_Witness ==
  /\ last = Last("add_sale", "UnknownProduct")
  /\ Len(customers) >= 1
  /\ Len(inventory) >= 1

\* C4: every successful add_sale appends exactly one sale with total_selling_price =
\* quantity*sp, total_buying_price = quantity*bp and revenue = their difference, reduces
\* the total stock held for the product by exactly quantity, increases that customer's
\* orders by exactly 1 and changes no other product's stock and no other customer.
C4_Claim ==
  \A in \in SaleInputs :
    LET r == SaleOutcome(in, "none")
        p == in[1]
        q == in[2]
        cid == in[4]
    IN r.ok =>
         /\ r.db.sales =
              Append(sales, [product |-> p, quantity |-> q,
                             total_selling_price |-> q * in[3][1],
                             total_buying_price |-> q * in[3][2],
                             revenue |-> (q * in[3][1]) - (q * in[3][2]),
                             customer_id |-> cid])
         /\ TotalStock(r.db.inventory, p) = TotalStock(inventory, p) - q
         /\ \A p2 \in Products \ {p} :
              TotalStock(r.db.inventory, p2) = TotalStock(inventory, p2)
         /\ r.db.customers = [customers EXCEPT ![cid].orders = @ + 1]

\* C5: add_inventory is an upsert keyed by product: there is at most one inventory row
\* per product, and after add_inventory(p, n) the stock read for p is n.
C5_Claim ==
  /\ \A p \in Products : Cardinality(ProductRows(inventory, p)) <= 1
  /\ \A p \in Products, n \in StockLevels :
       n >= 0 => SelectStock(add_inventory(DB, p, n).db.inventory, p) = n

\* C6: no two customer rows share an email; add_customer with an email already present
\* returns None and leaves the tables unchanged, and with a new email appends exactly one
\* row and returns its id.
C6_UniqueEmail ==
  /\ \A i, j \in 1..Len(customers) : customers[i].email = customers[j].email => i = j
  /\ \A c \in CustomerInputs :
       LET r == add_customer(schema, DB, c[1], c[2], c[3])
       IN IF \E i \in 1..Len(customers) : customers[i].email = c[1]
            THEN ~r.ok /\ r.id = 0 /\ r.db = DB
            ELSE /\ r.ok
                 /\ r.id = Len(customers) + 1
                 /\ r.db = [DB EXCEPT !.customers =
                              Append(@, [email |-> c[1], orders |-> c[2],
                                         is_active |-> c[3]])]

C6_Witness ==
  /\ last = Last("add_customer", "DuplicateEmail")
  /\ Len(customers) = 2

\* C7: every sale row is inserted through the validated path: at the time of the insert
\* its customer_id is the id of a customer row and its product has an inventory row whose
\* stock is at least the quantity.
C7_Claim ==
  [][\A k \in (Len(sales) + 1)..Len(sales') :
       /\ sales'[k].customer_id \in 1..Len(customers)
       /\ ProductRows(inventory, sales'[k].product) # {}
       /\ SelectStock(inventory, sales'[k].product) >= sales'[k].quantity]_vars

\* C8: a customer's orders changes only together with a new sale row of that customer,
\* by +1 per row, and a customer row starts with no sale row carrying its id; so orders
\* minus the value given at creation is the number of sale rows of that customer.
C8_Claim ==
  [][/\ \A c \in 1..Len(customers) :
          customers'[c].orders - customers[c].orders = SalesOf(sales', c) - SalesOf(sales, c)
     /\ \A c \in (Len(customers) + 1)..Len(customers') : SalesOf(sales', c) = 0]_vars

\* C9: every sale row has quantity >= 1, and no add_sale call increases a stock.
C9_Claim ==
  /\ \A k \in 1..Len(sales) : sales[k].quantity >= 1
  /\ \A in \in SaleInputs :
       \A i \in 1..Len(inventory) :
         SaleOutcome(in, "none").db.inventory[i].stock <= inventory[i].stock

\* C10: compute_metrics never divides by zero; churn_rate is (total - active) / total *
\* 100 when total > 0 and 0 otherwise; profit_margin is total_revenue / sum of
\* total_selling_price * 100 when that sum is non-zero and 0 when it is 0; every KPI of
\* an empty store is 0.
C10_Claim ==
  LET m == compute_metrics(sales, customers)
      total == Len(customers)
      active == Cardinality({i \in 1..Len(customers) : customers[i].is_active = 1})
      tsp == ColumnSum(sales, "total_selling_price")
  IN /\ m.churn_rate.den # 0 /\ m.profit_margin.den # 0 /\ m.avg_order_value.den # 0
     /\ SameRatio(m.churn_rate,
                  IF total > 0 THEN Ratio((total - active) * 100, total) ELSE Zero)
     /\ SameRatio(m.profit_margin,
                  IF tsp # 0 THEN Ratio(m.total_revenue * 100, tsp) ELSE Zero)
     /\ (sales = <<>> /\ customers = <<>>) =>
          /\ m.total_revenue = 0 /\ m.total_quantity = 0 /\ m.total_customers = 0
          /\ m.churn_rate.num = 0 /\ m.profit_margin.num = 0 /\ m.avg_order_value.num = 0

RECURSIVE SumQuantity(_, _, _)
\* the quantities of the first n sale rows of product p, added up
SumQuantity(s, p, n) ==
  IF n = 0 THEN 0
  ELSE SumQuantity(s, p, n - 1) + (IF s[n].product = p THEN s[n].quantity ELSE 0)

\* C11: when two add_sale calls run on separate connections with their statements
\* interleaved, the committed sales never oversell, under either table definition: for
\* every product the quantities of the committed sales add up to at most the stock
\* available before the calls, and every row's stock is >= 0 and is its stock before the
\* calls minus that sum.
C11_Claim ==
  /\ Len(inventory) = Len(inventory0)
  /\ \A p \in Products :
       ProductRows(inventory0, p) # {} =>
         SumQuantity(sales, p, Len(sales)) <= SelectStock(inventory0, p)
  /\ \A i \in 1..Len(inventory0) :
       /\ inventory[i].stock >= 0
       /\ inventory[i].stock =
            inventory0[i].stock - SumQuantity(sales, inventory0[i].product, Len(sales))

====
